---- MODULE Spec2Model ----
(***************************************************************************)
(* A model of rust-emitter (src/src/lib.rs): EventEmitter, a table from    *)
(* TypeId to a vector of type-erased handlers, and the two provided        *)
(* methods of the Eventable trait, `on` and `trigger`.                     *)
(*                                                                         *)
(* `trigger` is modelled one handler call at a time (TriggerStart, Invoke, *)
(* TriggerReturn): pc is the position of the caller inside it.             *)
(***************************************************************************)
EXTENDS Integers, Sequences, FiniteSets, TLC

\* ------------------------------------------------------------- bounds

\* on calls in one behaviour
MaxOn == 3

\* trigger calls in one behaviour
MaxTrig == 2

\* payload values are 0..MaxVal
MaxVal == 1

Values == 0..MaxVal

\* ------------------------------------------------------------- inputs

\* The event marker types of the embedding program (E in on::<E, F, X>).
Kinds == {"Clicked", "Moved"}

\* The payload types of the embedding program (X in Event<X>). "Cell" is a
\* type with interior mutability (std::cell::Cell<u32>): a shared reference
\* to it can be written through.
PayloadTypes == {"u32", "String", "Cell"}

\* The `impl Event<X> for E {}` items of the embedding program. The trait
\* takes X as a type parameter, so one E may implement it for several X.
EventImpl ==
    {<<"Clicked", "u32">>, <<"Clicked", "String">>, <<"Moved", "Cell">>}

\* What a handler's body does when called: return after reading the
\* payload, write the payload through the shared reference and return,
\* panic, or never return.
Behaviours == {"rec", "set", "panic", "hang"}

\* The closures F: Fn(&X) + Send the program passes to on: xt is the X the
\* closure was written for. Only a payload with interior mutability can be
\* written through &X.
Closures ==
    {[xt |-> "u32", beh |-> "rec"], [xt |-> "u32", beh |-> "panic"],
     [xt |-> "u32", beh |-> "hang"],
     [xt |-> "Cell", beh |-> "rec"], [xt |-> "Cell", beh |-> "set"]}

\* ------------------------------------------------------------- state

VARIABLES
    events,    \* EventEmitter.events: TypeId -> Vec<Box<Fn(&()) + Send>>
    pc,        \* where the caller is: "idle", "dispatch" (inside trigger's
               \* loop), "blocked" (inside a handler that never returns),
               \* "crashed" (the process died in a mistyped handler call)
    cur,       \* the running or last trigger call: its E, key and argument,
               \* whether get found a bucket, and the number of on calls
               \* made before it (at)
    event,     \* trigger's local `event: X`, the payload the handlers borrow
    i,         \* position of `handlers.iter()` in the bucket (1-based)
    result,    \* how the last trigger ended: "none", "ok", "panic"
    ntrig,     \* trigger calls made so far
    invoked,   \* the handler calls made by the running or last trigger
    calls,     \* for every handler call ever made, the number of its trigger
    history,   \* the on calls made so far, in order
    host,      \* a second object, a host type that implements Eventable by
               \* handing out the EventEmitter it holds in a field
    prev       \* the trigger call before cur, when it was of the same
               \* kind: its kind, its object, the number of on calls made
               \* before it, the handlers it called and how it ended

vars ==
    <<events, pc, cur, event, i, result, ntrig, invoked, calls, history,
      host, prev>>

\* The two objects on and trigger are called on: the bare EventEmitter
\* (events) and the host.
Bare == 1

Host == 2

NoCall ==
    [kind |-> "none", key |-> 0, ty |-> "none", v0 |-> 0, some |-> FALSE,
     at |-> 0, em |-> Bare]

NoPrev ==
    [kind |-> "none", em |-> Bare, at |-> 0, ids |-> <<>>, result |-> "none"]

NoEvent == [ty |-> "none", val |-> 0]

\* ------------------------------------------------------------- helpers

\* Variant of TypeIdOf: two types share an id.
TypeIdOfCollide(E) == 17

\* TypeId::of::<E>(): a number that identifies the type E. It is taken of
\* the event marker alone; the payload type X has no part in it.
TypeIdOf(E) == CASE E = "Clicked" -> 17 [] E = "Moved" -> 42

\* box callback, then mem::transmute to Box<Fn(&()) + Send>: the stored
\* entry keeps the closure (its code, written for xt) and its own address
\* (id), and nothing of the type X it was registered with.
Erase(callback, id) == [xt |-> callback.xt, beh |-> callback.beh, id |-> id]

\* Variants of EntryPush: a closure the bucket already holds is not pushed
\* again; an occupied entry is overwritten; the handler is put at the
\* front; an occupied entry is left as it is.
EntryPushDedup(table, key, h) ==
    [k \in DOMAIN table \cup {key} |->
        IF k = key
        THEN IF key \in DOMAIN table
             THEN IF \E j \in 1..Len(table[key]) :
                        /\ table[key][j].xt = h.xt
                        /\ table[key][j].beh = h.beh
                  THEN table[key]
                  ELSE Append(table[key], h)
             ELSE <<h>>
        ELSE table[k]]

EntryPushReplace(table, key, h) ==
    [k \in DOMAIN table \cup {key} |-> IF k = key THEN <<h>> ELSE table[k]]

EntryPushFront(table, key, h) ==
    [k \in DOMAIN table \cup {key} |->
        IF k = key
        THEN IF key \in DOMAIN table THEN <<h>> \o table[key] ELSE <<h>>
        ELSE table[k]]

EntryPushVacantOnly(table, key, h) ==
    [k \in DOMAIN table \cup {key} |->
        IF k \in DOMAIN table THEN table[k] ELSE <<h>>]

\* The table after on's match on entry(key): push onto an occupied entry,
\* a fresh one-element vector into a vacant one.
EntryPush(table, key, h) ==
    [k \in DOMAIN table \cup {key} |->
        IF k = key
        THEN IF key \in DOMAIN table THEN Append(table[key], h) ELSE <<h>>
        ELSE table[k]]

\* The host's events(&self): the emitter in its field.
HostEvents(h) == h.emitter

\* Variant of HostWith: what is written through events_mut() is lost.
HostWithLost(h, table) == h

\* The host after a write of table through its events_mut(&mut self).
HostWith(h, table) == [h EXCEPT !.emitter = table]

\* Variant of TableOf: there is one table for all objects.
TableOfShared(em) == events

\* self.events().events, the table on and trigger work on: the emitter
\* itself for an EventEmitter (events(&self) is self), the emitter in its
\* field for the host.
TableOf(em) == IF em = Bare THEN events ELSE HostEvents(host)

\* Variant of CanBorrowMut: on may run while a trigger is in its loop.
CanBorrowMutInLoop == pc \in {"idle", "dispatch"}

\* on takes &mut self and trigger holds &self until it is left: on can be
\* called only while no trigger is running.
CanBorrowMut == pc = "idle"

\* self.events().events.get(&key) is Some(bucket), not None.
Get(table, key) == key \in DOMAIN table

\* Variants of AfterGet: the bucket is taken out of the table; a missing
\* bucket is created empty.
AfterGetDrained(table, key) ==
    [k \in DOMAIN table |-> IF k = key THEN <<>> ELSE table[k]]

AfterGetInserted(table, key) ==
    [k \in DOMAIN table \cup {key} |->
        IF k \in DOMAIN table THEN table[k] ELSE <<>>]

\* The table after get: trigger has &self, and get only reads.
AfterGet(table, key) == table

\* mem::transmute of the bucket to &Vec<Box<Fn(&X)>>: every entry of the
\* bucket is taken to be a handler of trigger's X, whatever it was
\* registered with. matches says whether that is what the closure is.
Restore(h, X) == [h |-> h, matches |-> (h.xt = X)]

\* Variant of Borrow: the handler gets a payload of its own.
BorrowDefault(ev) == [ty |-> ev.ty, val |-> 0]

\* (&event,): the argument of every handler call is a shared reference to
\* trigger's one local `event`.
Borrow(ev) == ev

\* What calling the closure of r on the payload p can do. A closure called
\* on the type it was written for reads p.val. One called on another type
\* reads the payload's bytes as its own type: what it reads may or may not
\* be p.val, or the process dies in it. "set" writes through the reference.
HandlerCall(r, p) ==
    LET end == CASE r.h.beh = "panic" -> "panic"
                 [] r.h.beh = "hang" -> "hang"
                 [] OTHER -> "ret"
        other == (p.val + 1) % (MaxVal + 1)
        new == IF r.h.beh = "set" THEN other ELSE p.val
        run(s) == [seen |-> s, outcome |-> end, newval |-> new]
    IN  IF r.matches
        THEN {run(p.val)}
        ELSE {run(p.val), run(other),
              [seen |-> p.val, outcome |-> "crash", newval |-> p.val]}

\* Variants of NextIndex: the iterator does not advance; it skips one.
NextIndexStuck(n) == n

NextIndexSkip(n) == n + 2

\* for handler in handlers.iter(): the position after a handler returned.
NextIndex(n) == n + 1

\* Variant of AfterCall: a panic is caught and the loop goes on.
AfterCallIsolated(outcome, n) ==
    CASE outcome \in {"ret", "panic"} ->
             [pc |-> "dispatch", i |-> NextIndex(n), result |-> "none"]
      [] outcome = "hang" -> [pc |-> "blocked", i |-> n, result |-> "none"]
      [] outcome = "crash" -> [pc |-> "crashed", i |-> n, result |-> "none"]

\* Where the caller is after a handler call made at position n ended with
\* outcome: the loop goes on after a return; a panic unwinds out of the
\* loop and out of trigger, to its caller; nothing follows the other two.
AfterCall(outcome, n) ==
    CASE outcome = "ret" ->
             [pc |-> "dispatch", i |-> NextIndex(n), result |-> "none"]
      [] outcome = "panic" -> [pc |-> "idle", i |-> n, result |-> "panic"]
      [] outcome = "hang" -> [pc |-> "blocked", i |-> n, result |-> "none"]
      [] outcome = "crash" -> [pc |-> "crashed", i |-> n, result |-> "none"]

\* ------------------------------------------------------------- actions

\* A new EventEmitter: the table is empty (the crate gives no constructor;
\* an emitter starts from an empty HashMap).
Init ==
    /\ events = <<>>
    /\ pc = "idle"
    /\ cur = NoCall
    /\ event = NoEvent
    /\ i = 0
    /\ result = "none"
    /\ ntrig = 0
    /\ invoked = <<>>
    /\ calls = <<>>
    /\ history = <<>>
    /\ host = [emitter |-> <<>>]
    /\ prev = NoPrev

\* fn on<E: Event<X>, F: Fn(&X) + Send, X>(&mut self, callback: F), called
\* on the object em: the push goes through events_mut() into that object's
\* table.
OnAt(em, E, callback) ==
    /\ CanBorrowMut
    /\ Len(history) < MaxOn
    /\ <<E, callback.xt>> \in EventImpl
    /\ LET table == EntryPush(TableOf(em), TypeIdOf(E),
                              Erase(callback, Len(history) + 1))
       IN  IF em = Bare
           THEN events' = table /\ host' = host
           ELSE host' = HostWith(host, table) /\ events' = events
    /\ history' = Append(history, [kind |-> E, xt |-> callback.xt,
                                   beh |-> callback.beh, em |-> em])
    /\ UNCHANGED <<pc, cur, event, i, result, ntrig, invoked, calls, prev>>

\* on, called on the EventEmitter itself.
On(E, callback) == OnAt(Bare, E, callback)

\* on, called on the host.
OnHost(E, callback) == OnAt(Host, E, callback)

\* fn trigger<E: Event<X>, X>(&self, event: X), called on the object em, up
\* to the first handler call: the lookup, and the return when there is no
\* bucket.
TriggerAt(em, E, X, v) ==
    /\ pc = "idle"
    /\ ntrig < MaxTrig
    /\ <<E, X>> \in EventImpl
    /\ ntrig' = ntrig + 1
    /\ invoked' = <<>>
    /\ prev' = IF cur.kind = E
               THEN [kind |-> cur.kind, em |-> cur.em, at |-> cur.at,
                     ids |-> [j \in 1..Len(invoked) |-> invoked[j].id],
                     result |-> result]
               ELSE NoPrev
    /\ LET key == TypeIdOf(E)
           some == Get(TableOf(em), key)
           table == AfterGet(TableOf(em), key)
       IN  /\ cur' = [kind |-> E, key |-> key, ty |-> X, v0 |-> v,
                      some |-> some, at |-> Len(history), em |-> em]
           /\ IF em = Bare
              THEN events' = table /\ host' = host
              ELSE host' = HostWith(host, table) /\ events' = events
           /\ IF some
              THEN /\ pc' = "dispatch"
                   /\ event' = [ty |-> X, val |-> v]
                   /\ i' = 1
                   /\ result' = "none"
              ELSE /\ pc' = "idle"
                   /\ event' = NoEvent
                   /\ i' = 0
                   /\ result' = "ok"
    /\ UNCHANGED <<calls, history>>

\* trigger, called on the EventEmitter itself.
TriggerStart(E, X, v) == TriggerAt(Bare, E, X, v)

\* trigger, called on the host.
TriggerHost(E, X, v) == TriggerAt(Host, E, X, v)

\* handler.call((&event,)): one pass of trigger's loop body.
Invoke ==
    /\ pc = "dispatch"
    /\ i <= Len(TableOf(cur.em)[cur.key])
    /\ LET h == TableOf(cur.em)[cur.key][i]
           p == Borrow(event)
       IN  \E o \in HandlerCall(Restore(h, cur.ty), p) :
               LET after == AfterCall(o.outcome, i)
               IN  /\ invoked' = Append(invoked,
                          [id |-> h.id, xt |-> h.xt, beh |-> h.beh,
                           ty |-> p.ty, val |-> p.val, seen |-> o.seen,
                           outcome |-> o.outcome])
                   /\ calls' = Append(calls, ntrig)
                   /\ event' = [event EXCEPT !.val = o.newval]
                   /\ pc' = after.pc
                   /\ i' = after.i
                   /\ result' = after.result
    /\ UNCHANGED <<events, cur, ntrig, history, host, prev>>

\* The iterator is exhausted: trigger drops `event` and returns.
TriggerReturn ==
    /\ pc = "dispatch"
    /\ i > Len(TableOf(cur.em)[cur.key])
    /\ pc' = "idle"
    /\ result' = "ok"
    /\ event' = NoEvent
    /\ UNCHANGED <<events, cur, i, ntrig, invoked, calls, history, host, prev>>

\* One EventEmitter, used directly.
Next ==
    \/ \E E \in Kinds, c \in Closures : On(E, c)
    \/ \E E \in Kinds, X \in PayloadTypes, v \in Values : TriggerStart(E, X, v)
    \/ Invoke
    \/ TriggerReturn

Spec == Init /\ [][Next]_vars

\* trigger is ordinary sequential code: once called it keeps running.
FairSpec == Spec /\ WF_vars(Invoke) /\ WF_vars(TriggerReturn)

\* The closures passed to on when there are two objects.
PairClosures ==
    {[xt |-> "u32", beh |-> "rec"], [xt |-> "u32", beh |-> "panic"]}

\* The payload value passed to trigger when there are two objects.
PairValues == {MaxVal}

\* An EventEmitter and a host, each called in any order.
PairNext ==
    \/ \E E \in Kinds, c \in PairClosures : On(E, c)
    \/ \E E \in Kinds, c \in PairClosures : OnHost(E, c)
    \/ \E E \in Kinds, X \in PayloadTypes, v \in PairValues :
           TriggerStart(E, X, v)
    \/ \E E \in Kinds, X \in PayloadTypes, v \in PairValues :
           TriggerHost(E, X, v)
    \/ Invoke
    \/ TriggerReturn

PairSpec == Init /\ [][PairNext]_vars

\* ------------------------------------------------------------- claims

IsPrefix(s, t) == Len(s) <= Len(t) /\ \A j \in 1..Len(s) : s[j] = t[j]

\* The on calls made for kind K among the first n, oldest first.
RegisteredIds(K, n) ==
    SelectSeq([j \in 1..n |-> j], LAMBDA j : history[j].kind = K)

\* The handlers the running or last trigger called, first call first.
InvokedIds == [j \in 1..Len(invoked) |-> invoked[j].id]

\* The last trigger returned to its caller without a panic.
ReturnedOk == ntrig > 0 /\ pc = "idle" /\ result = "ok"

\* C1: a trigger of K calls the handlers registered under K in the order
\* of their on calls, whatever was registered under other kinds in
\* between: what it has called so far is a prefix of K's registrations,
\* and all of them once it has returned normally.
C1_RegistrationOrder ==
    ntrig > 0 =>
        LET reg == RegisteredIds(cur.kind, cur.at)
        IN  /\ IsPrefix(InvokedIds, reg)
            /\ ReturnedOk => InvokedIds = reg

\* Clicked, Moved, Clicked were registered in that order and a trigger of
\* Clicked has returned after calling the first and the third.
C1_Witness ==
    /\ ReturnedOk
    /\ InvokedIds = <<1, 3>>
    /\ Len(history) = 3
    /\ history[2].kind # cur.kind

\* C2: every handler a trigger calls was registered with the payload type
\* that trigger was called with.
C2_PayloadTypeMatches ==
    \A j \in 1..Len(invoked) : invoked[j].xt = invoked[j].ty

\* C3: distinct kinds have distinct keys, and a trigger of one kind calls
\* no handler that was registered under another.
C3_IsolationByKind ==
    /\ \A A \in Kinds, B \in Kinds : A # B => TypeIdOf(A) # TypeIdOf(B)
    /\ \A j \in 1..Len(invoked) : history[invoked[j].id].kind = cur.kind

\* Both kinds have handlers, and a trigger of one of them has called its
\* own.
C3_Witness ==
    /\ ReturnedOk
    /\ Len(invoked) > 0
    /\ \E j \in 1..cur.at : history[j].kind # cur.kind

\* C4: when a trigger of K has returned normally, every handler registered
\* under K has been called exactly once by it, and it made as many calls
\* as on was called for K.
C4_Accumulation ==
    ReturnedOk =>
        LET regs == {j \in 1..cur.at : history[j].kind = cur.kind}
        IN  /\ Len(invoked) = Cardinality(regs)
            /\ \A j \in regs :
                   Cardinality({k \in 1..Len(invoked) : invoked[k].id = j}) = 1

\* Three on calls for one kind, and a trigger of it has returned normally.
C4_Witness ==
    /\ ReturnedOk
    /\ Len(invoked) = 3
    /\ \A j \in 1..3 : history[j].kind = cur.kind

\* C5, as claimed, for the handlers called with the payload type they were
\* registered with: each of them observes the value trigger was called with.
C5_EveryCallbackSeesV ==
    \A j \in 1..Len(invoked) :
        invoked[j].xt = invoked[j].ty => invoked[j].seen = cur.v0

\* C5, amended: trigger hands every handler the same payload and never
\* writes to it, so the payload a handler is called with holds the value
\* trigger was called with unless an earlier handler of the same trigger
\* wrote through the reference; a handler called with the payload type it
\* was registered with observes what the payload holds.
C5_SameUnlessWritten ==
    \A j \in 1..Len(invoked) :
        /\ invoked[j].ty = cur.ty
        /\ \/ invoked[j].val = cur.v0
           \/ \E k \in 1..(j - 1) : invoked[k].beh = "set"
        /\ invoked[j].xt = invoked[j].ty => invoked[j].seen = invoked[j].val

\* A trigger with a value other than 0 has called a handler that reads, one
\* that writes and one that reads: the first observed the value trigger was
\* called with, the last another one.
C5_Witness ==
    /\ ReturnedOk
    /\ Len(invoked) = 3
    /\ cur.v0 # 0
    /\ invoked[1].beh = "rec" /\ invoked[1].seen = cur.v0
    /\ invoked[2].beh = "set"
    /\ invoked[3].beh = "rec" /\ invoked[3].seen # cur.v0

\* C6: when a handler panics inside a trigger, it is the last handler that
\* trigger calls and the panic reaches trigger's caller; the handlers
\* registered before it have each returned, once and in order, it was
\* called once, and none registered after it is called.
C6_FailFast ==
    /\ \A j \in 1..Len(invoked) :
           invoked[j].outcome = "panic" =>
               /\ j = Len(invoked)
               /\ pc = "idle"
               /\ result = "panic"
    /\ result = "panic" =>
           /\ Len(invoked) > 0
           /\ invoked[Len(invoked)].outcome = "panic"
           /\ \A k \in 1..(Len(invoked) - 1) : invoked[k].outcome = "ret"
           /\ IsPrefix(InvokedIds, RegisteredIds(cur.kind, cur.at))

\* Of three handlers of one kind the second panicked: the first had
\* returned, the third was not called.
C6_Witness ==
    /\ result = "panic"
    /\ pc = "idle"
    /\ InvokedIds = <<1, 2>>
    /\ RegisteredIds(cur.kind, cur.at) = <<1, 2, 3>>

\* C7: a trigger of a kind on was never called for returns at once and
\* normally, calls no handler, and leaves the table as it was, with no
\* bucket for that kind.
C7_EmptyDispatch ==
    [][(/\ ntrig' = ntrig + 1
        /\ \A j \in 1..Len(history) : history[j].kind # cur'.kind)
       => /\ pc' = "idle"
          /\ result' = "ok"
          /\ invoked' = <<>>
          /\ calls' = calls
          /\ events' = events
          /\ TypeIdOf(cur'.kind) \notin DOMAIN events']_vars

\* A trigger of a kind with no registration has returned while the other
\* kind has a bucket.
C7_Witness ==
    /\ ntrig > 0
    /\ pc = "idle"
    /\ result = "ok"
    /\ \A j \in 1..Len(history) : history[j].kind # cur.kind
    /\ DOMAIN events # {}
    /\ invoked = <<>>

\* The step is a call of on.
OnStep == Len(history') = Len(history) + 1

\* C8: on can be called for every kind and closure whenever no trigger is
\* running; it appends the closure to the end of the kind's bucket (a new
\* bucket of one if there was none) and changes no other bucket.
C8_OnAppends ==
    /\ [](pc = "idle" /\ Len(history) < MaxOn =>
             \A E \in Kinds, c \in Closures :
                 <<E, c.xt>> \in EventImpl => ENABLED On(E, c))
    /\ [][OnStep =>
             LET r == history'[Len(history')]
                 key == TypeIdOf(r.kind)
                 old == IF key \in DOMAIN events THEN events[key] ELSE <<>>
             IN  /\ DOMAIN events' = DOMAIN events \cup {key}
                 /\ Len(events'[key]) = Len(old) + 1
                 /\ IsPrefix(old, events'[key])
                 /\ events'[key][Len(old) + 1] =
                        [xt |-> r.xt, beh |-> r.beh, id |-> Len(history')]
                 /\ \A k \in DOMAIN events \ {key} : events'[k] = events[k]
          ]_vars

\* on was called twice for one kind and once for the other.
C8_Witness ==
    /\ Len(history) = 3
    /\ \E k \in DOMAIN events : Len(events[k]) = 2
    /\ \E k \in DOMAIN events : Len(events[k]) = 1

\* C9: no step removes a bucket or shortens, reorders or replaces what is
\* in one: every bucket is a prefix of what it is after the step.
C9_AppendOnly ==
    [][\A k \in DOMAIN events :
           /\ k \in DOMAIN events'
           /\ IsPrefix(events[k], events'[k])]_vars

\* on was called for a kind after a trigger of that kind had run, and the
\* bucket holds the earlier and the later registration.
C9_Witness ==
    /\ ntrig > 0
    /\ Len(invoked) > 0
    /\ Len(history) > cur.at
    /\ history[Len(history)].kind = cur.kind
    /\ Len(events[cur.key]) = Len(invoked) + 1

\* No handler in the bucket of the running trigger is one that never
\* returns.
HandlersTerminate ==
    \A j \in 1..Len(events[cur.key]) :
        events[cur.key][j].beh # "hang"

\* C10: a trigger that returns normally has called every handler of the
\* bucket and each has returned; handler calls of an earlier trigger all
\* come before those of a later one; and a trigger whose handlers all
\* end is left: it returns, a panic unwinds out of it, or the process dies
\* in a mistyped handler call.
C10_Synchronous ==
    /\ [][pc = "dispatch" /\ pc' = "idle" /\ result' = "ok" =>
             /\ Len(invoked') = Len(events[cur.key])
             /\ \A j \in 1..Len(invoked') : invoked'[j].outcome = "ret"]_vars
    /\ [](pc = "dispatch" => Len(invoked) = i - 1)
    /\ [](\A a \in 1..Len(calls), b \in 1..Len(calls) :
             a < b => calls[a] <= calls[b])
    /\ (pc = "dispatch" /\ HandlersTerminate) ~> (pc \in {"idle", "crashed"})

\* Two triggers have returned normally, each after calling handlers.
C10_Witness ==
    /\ ReturnedOk
    /\ ntrig = 2
    /\ \E a \in 1..Len(calls) : calls[a] = 1
    /\ \E a \in 1..Len(calls) : calls[a] = 2

\* The closures of the on calls made on the object em among the first n,
\* with their kinds, oldest first.
OnsOf(em, n) ==
    LET js == SelectSeq([j \in 1..n |-> j], LAMBDA j : history[j].em = em)
    IN  [a \in 1..Len(js) |->
            [kind |-> history[js[a]].kind, xt |-> history[js[a]].xt,
             beh |-> history[js[a]].beh]]

\* C11: an on call on one object leaves the table of the other as it was,
\* and a trigger on one object calls only handlers that were registered on
\* that object, also when the other holds handlers of the same kind.
C11_PerInstanceTables ==
    /\ [][OnStep =>
             IF history'[Len(history')].em = Bare
             THEN host' = host
             ELSE events' = events]_vars
    /\ [](\A j \in 1..Len(invoked) : history[invoked[j].id].em = cur.em)

\* Both objects hold a handler of one kind, and a trigger of that kind on
\* the host has returned after calling the host's.
C11_Witness ==
    /\ ReturnedOk
    /\ cur.em = Host
    /\ Len(invoked) > 0
    /\ \E j \in 1..cur.at : history[j].em = Bare /\ history[j].kind = cur.kind

\* A table without the addresses of its boxes: per key, the closures.
Shape(table) ==
    [k \in DOMAIN table |->
        [j \in 1..Len(table[k]) |->
            [xt |-> table[k][j].xt, beh |-> table[k][j].beh]]]

\* For each handler of ids, the position of its on call among the on calls
\* made on the same object.
Ranks(ids) ==
    [a \in 1..Len(ids) |->
        Cardinality({j \in 1..ids[a] : history[j].em = history[ids[a]].em})]

C13_TriggerReadsOnly ==
    /\ [][history' = history => events' = events]_vars
    /\ [](ntrig >= 2 /\ prev.kind = cur.kind /\ prev.at = cur.at =>
             /\ IsPrefix(InvokedIds, prev.ids)
             /\ pc = "idle" => InvokedIds = prev.ids /\ result = prev.result)

\* A trigger was left by the panic of its second handler, and the same
\* trigger made again called the same two handlers and panicked again.
C13_Witness ==
    /\ ntrig = 2
    /\ pc = "idle"
    /\ prev.kind = cur.kind
    /\ prev.at = cur.at
    /\ prev.result = "panic"
    /\ Len(prev.ids) = 2
    /\ InvokedIds = prev.ids

\* The entries of seq that hold the closure c.
Copies(seq, c) ==
    Cardinality({j \in 1..Len(seq) : seq[j].xt = c.xt /\ seq[j].beh = c.beh})

\* C14: a closure registered k times under a kind is k times in the kind's
\* bucket, and a trigger that returns normally has called, at each
\* position, the closure of the on call at that position.
C14_NoDeduplication ==
    /\ \A K \in Kinds, c \in Closures :
           Copies(SelectSeq(history, LAMBDA r : r.kind = K), c)
             = IF TypeIdOf(K) \in DOMAIN events
               THEN Copies(events[TypeIdOf(K)], c)
               ELSE 0
    /\ ReturnedOk =>
           LET reg == RegisteredIds(cur.kind, cur.at)
           IN  /\ Len(invoked) = Len(reg)
               /\ \A j \in 1..Len(reg) :
                      /\ invoked[j].xt = history[reg[j]].xt
                      /\ invoked[j].beh = history[reg[j]].beh

\* One closure was registered three times under a kind, and a trigger of
\* that kind called it three times.
C14_Witness ==
    /\ ReturnedOk
    /\ Len(invoked) = 3
    /\ Len(events[cur.key]) = 3
    /\ \A j \in 1..3 :
           /\ history[j].kind = cur.kind
           /\ history[j].xt = history[1].xt
           /\ history[j].beh = history[1].beh
           /\ invoked[j].beh = history[1].beh

\* C15: while a trigger is running no on call can be made and the table
\* does not change, so the bucket the trigger walks is the one of the
\* moment it was called, and every handler it calls was registered before
\* that moment.
C15_NoOnDuringTrigger ==
    /\ [][pc = "dispatch" => history' = history /\ events' = events]_vars
    /\ [](pc = "dispatch" =>
             /\ \A E \in Kinds, c \in Closures : ~ENABLED On(E, c)
             /\ [j \in 1..Len(events[cur.key]) |-> events[cur.key][j].id]
                  = RegisteredIds(cur.kind, cur.at))
    /\ [](\A j \in 1..Len(invoked) : invoked[j].id <= cur.at)

\* After a trigger that called two handlers had returned, on was called
\* for its kind: the bucket holds a handler that trigger did not call.
C15_Witness ==
    /\ ReturnedOk
    /\ Len(invoked) = 2
    /\ Len(history) = cur.at + 1
    /\ history[Len(history)].kind = cur.kind
    /\ Len(events[cur.key]) = 3

\* C16: the table holds a bucket for a kind exactly when on was called for
\* that kind, no bucket is empty, and a bucket is as long as the number of
\* on calls made for its kind.
C16_BucketsMatchOnCalls ==
    /\ DOMAIN events \subseteq {TypeIdOf(K) : K \in Kinds}
    /\ \A K \in Kinds :
           LET n == Len(SelectSeq(history, LAMBDA r : r.kind = K))
           IN  /\ TypeIdOf(K) \in DOMAIN events <=> n >= 1
               /\ TypeIdOf(K) \in DOMAIN events =>
                      Len(events[TypeIdOf(K)]) = n /\ n > 0

\* on was called twice for one kind and never for the other, which has
\* been triggered: one bucket of two, and no other.
C16_Witness ==
    /\ Len(history) = 2
    /\ ntrig > 0
    /\ pc = "idle"
    /\ \A j \in 1..2 : history[j].kind # cur.kind
    /\ Cardinality(DOMAIN events) = 1
    /\ \E k \in DOMAIN events : Len(events[k]) = 2

====
